---- MODULE Spec2Model ----
(***************************************************************************)
(* Model of src/shell_token.c: shell_command_param_split and the caller    *)
(* loop of its USAGE comment.  A buffer is a sequence of byte values; the  *)
(* C string's terminating NUL sits at offset Len(buf).  A pointer into the *)
(* buffer is its offset (0 .. Len(buf)); the null pointer is NULL.         *)
(***************************************************************************)
EXTENDS Integers, Sequences, FiniteSets, TLC

(*************************** byte values ***********************************)
NUL    == 0
TAB    == 9
SP     == 32
DQ     == 34
AMP    == 38
SQ     == 39
SEMI   == 59
LT     == 60
GT     == 62
LETTER == 122
PIPE   == 124

NULL == -1

(*************************** bounds ****************************************)
\* longest buffer enumerated byte by byte over the whole alphabet
MaxLen == 3
\* most parameter words of a generated statement
MaxWords == 2
\* most statements of a generated `cmd word > target && ...` chain
MaxStmts == 3

Alphabet == {TAB, SP, DQ, AMP, SQ, SEMI, LT, GT, LETTER, PIPE}

(*************************** helpers ***************************************)
\* *p for a pointer p into the buffer: the bytes, then the terminator.
\* An offset above Len(b) lies outside the object; the offsets read are
\* collected in "rd" so that such a read is visible.
Byte(b, p) == IF p >= 0 /\ p < Len(b) THEN b[p + 1] ELSE NUL

IsBlank(c) == c = SP \/ c = TAB

\* IsSeper that forgets '|'
IsSeper_NoPipe(c) == c \in {SP, TAB, GT, LT, AMP, SEMI}

IsSeper(c) == c \in {SP, TAB, GT, LT, PIPE, AMP, SEMI}

\* EAT_BLANK that stops at a tab
RECURSIVE EAT_BLANK_SpaceOnly(_, _)
EAT_BLANK_SpaceOnly(b, p) ==
    IF p # NULL /\ Byte(b, p) = SP THEN EAT_BLANK_SpaceOnly(b, p + 1) ELSE p

RECURSIVE EAT_BLANK(_, _)
EAT_BLANK(b, p) ==
    IF p # NULL /\ IsBlank(Byte(b, p)) THEN EAT_BLANK(b, p + 1) ELSE p

RECURSIVE GET_CHAR(_, _, _)
GET_CHAR(b, p, c) ==
    IF p # NULL /\ Byte(b, p) # NUL /\ Byte(b, p) # c
    THEN GET_CHAR(b, p + 1, c)
    ELSE p

\* QuoteSkip that steps over the quote only
QuoteSkip_QuoteOnly(b, p) == p + 1

\* QuoteSkip without the test of *p before the last p++
QuoteSkip_NoEndTest(b, p) == GET_CHAR(b, p + 1, DQ) + 1

\* the body of GET_SEPER's loop for *p == '"': p++; GET_CHAR(p, '"'); if (*p) p++;
QuoteSkip(b, p) ==
    LET q == GET_CHAR(b, p + 1, DQ)
    IN  IF Byte(b, q) # NUL THEN q + 1 ELSE q

\* GET_SEPER that looks at the byte before a quote: only a quote that
\* follows a blank or starts the buffer opens a quoted run
RECURSIVE GET_SEPER_LooksBack(_, _)
GET_SEPER_LooksBack(b, p) ==
    IF p # NULL /\ Byte(b, p) # NUL /\ ~IsSeper(Byte(b, p))
    THEN IF Byte(b, p) = DQ /\ (p = 0 \/ IsBlank(Byte(b, p - 1)))
         THEN GET_SEPER_LooksBack(b, QuoteSkip(b, p))
         ELSE GET_SEPER_LooksBack(b, p + 1)
    ELSE p

\* GET_SEPER without the quote branch: a quote is an ordinary byte
RECURSIVE GET_SEPER_NoQuote(_, _)
GET_SEPER_NoQuote(b, p) ==
    IF p # NULL /\ Byte(b, p) # NUL /\ ~IsSeper(Byte(b, p))
    THEN GET_SEPER_NoQuote(b, p + 1)
    ELSE p

RECURSIVE GET_SEPER(_, _)
GET_SEPER(b, p) ==
    IF p # NULL /\ Byte(b, p) # NUL /\ ~IsSeper(Byte(b, p))
    THEN IF Byte(b, p) = DQ
         THEN GET_SEPER(b, QuoteSkip(b, p))
         ELSE GET_SEPER(b, p + 1)
    ELSE p

\* a scan that starts at p and ends at q dereferences every offset p .. q
Scanned(p, q) == IF p = NULL THEN {} ELSE p .. q

\* the token scanned by one GET_SEPER, when it is not empty
Tok(p, q) == IF q > p THEN {<<p, q>>} ELSE {}

VARIABLES
    buf,          \* the input string, without its terminator
    input,        \* the caller's "input": the buffer (offset) or NULL
    context,      \* the caller's cursor
    cmdb, cmde, paramsb, paramse, r, redir_begin, redir_end, o,
    pc,           \* "call" inside the do/while, "done" after it
    stmts,        \* what each call of the chain returned, in order
    shape,        \* how a generated chain was laid out (<<>> otherwise)
    chain,        \* two callers, each with its own buffer, cursor, outputs
    b64,          \* b64.c: one encode and decode of a byte sequence
    parenth,      \* parenth.c: one string and what was made of it
    path,         \* simplify_path.c: one string and what was made of it
    unescape      \* c_unescape.c: one source, one destination buffer

(*************************** the splitter **********************************)
\* The state of one call: cp, the values stored so far through the output
\* pointers (o is the value to return), and what the call did on the way:
\* "start" the pointer it began from, "rd" the offsets it dereferenced,
\* "toks" the tokens GET_SEPER scanned, "redir_at" .. "redir_after" the
\* bytes the first switch looked at and consumed, "op_at" the offset the
\* second switch looked at.

\* Enter without lines 94-100: the outputs keep what the caller's variables
\* held before the call
Enter_NoReset(in, ctx) ==
    LET cp0 == IF in # NULL THEN in ELSE ctx
    IN  [cp |-> cp0, o |-> "SOP_NONE",
         cmd_begin |-> cmdb, cmd_end |-> cmde,
         params_begin |-> paramsb, params_end |-> paramse,
         sop_redir |-> r,
         redir_begin |-> redir_begin, redir_end |-> redir_end,
         start |-> cp0, rd |-> {}, toks |-> {},
         redir_at |-> NULL, redir_after |-> NULL, op_at |-> NULL]

\* o = SOP_NONE; cp = input or *context; the seven outputs reset
Enter(in, ctx) ==
    LET cp0 == IF in # NULL THEN in ELSE ctx
    IN  [cp |-> cp0, o |-> "SOP_NONE",
         cmd_begin |-> NULL, cmd_end |-> NULL,
         params_begin |-> NULL, params_end |-> NULL,
         sop_redir |-> "SOP_REDIR_NONE",
         redir_begin |-> NULL, redir_end |-> NULL,
         start |-> cp0, rd |-> {}, toks |-> {},
         redir_at |-> NULL, redir_after |-> NULL, op_at |-> NULL]

\* CommandPhase without the EAT_BLANK before the command
CommandPhase_NoSkip(b, m) ==
    LET c1 == m.cp
        c2 == IF Byte(b, c1) # NUL THEN GET_SEPER(b, c1) ELSE c1
    IN  [m EXCEPT !.cp = c2, !.cmd_begin = c1, !.cmd_end = c2,
                  !.rd = @ \cup Scanned(m.cp, c2),
                  !.toks = @ \cup Tok(c1, c2)]

\* EAT_BLANK(cp); *cmd_end = *cmd_begin = cp;
\* if (*cp) { GET_SEPER(cp); *cmd_end = cp; ...
CommandPhase(b, m) ==
    LET c1 == EAT_BLANK(b, m.cp)
        c2 == IF Byte(b, c1) # NUL THEN GET_SEPER(b, c1) ELSE c1
    IN  [m EXCEPT !.cp = c2, !.cmd_begin = c1, !.cmd_end = c2,
                  !.rd = @ \cup Scanned(m.cp, c2),
                  !.toks = @ \cup Tok(c1, c2)]

\* one round of the parameter loop:
\* EAT_BLANK(cp); GET_SEPER(cp); if (*cp && *cp == ' ') *params_end = cp;
ParamStep(b, m) ==
    LET c1 == EAT_BLANK(b, m.cp)
        c2 == GET_SEPER(b, c1)
    IN  [m EXCEPT !.cp = c2,
                  !.params_end = IF Byte(b, c2) = SP THEN c2 ELSE @,
                  !.rd = @ \cup Scanned(m.cp, c2),
                  !.toks = @ \cup Tok(c1, c2)]

\* while (*cp && *cp == ' ') { ... }
RECURSIVE ParamLoop(_, _)
ParamLoop(b, m) ==
    IF Byte(b, m.cp) = SP THEN ParamLoop(b, ParamStep(b, m)) ELSE m

\* the first parameter word:
\* EAT_BLANK(cp); *params_end = *params_begin = cp;
\* if (*cp) { GET_SEPER(cp); *params_end = cp; while ...
ParamFirst(b, m) ==
    LET c1 == EAT_BLANK(b, m.cp)
        c2 == IF Byte(b, c1) # NUL THEN GET_SEPER(b, c1) ELSE c1
    IN  [m EXCEPT !.cp = c2, !.params_begin = c1, !.params_end = c2,
                  !.rd = @ \cup Scanned(m.cp, c2),
                  !.toks = @ \cup Tok(c1, c2)]

\* if (*cp && *cp == ' ') { ... }: the parameter phase, entered with cp at
\* the end of the command
ParamPhase(b, m) ==
    IF Byte(b, m.cp) = SP
    THEN IF Byte(b, EAT_BLANK(b, m.cp)) # NUL
         THEN ParamLoop(b, ParamFirst(b, m))
         ELSE ParamFirst(b, m)
    ELSE m

\* RedirOp whose `<` case has no lookahead: `<>` is `<` and one byte
RedirOp_NoInOut(b, m) ==
    LET c  == Byte(b, m.cp)
        c1 == Byte(b, m.cp + 1)
        kind == IF c = GT
                THEN IF c1 = GT THEN "SOP_REDIR_OUT_APPEND" ELSE "SOP_REDIR_OUT"
                ELSE IF c = LT THEN "SOP_REDIR_IN"
                ELSE "SOP_REDIR_NONE"
        n == IF c = GT THEN IF c1 = GT THEN 2 ELSE 1
             ELSE IF c = LT THEN 1 ELSE 0
    IN  [m EXCEPT !.cp = @ + n, !.sop_redir = kind,
                  !.rd = @ \cup (IF n = 0 THEN {m.cp} ELSE {m.cp, m.cp + 1}),
                  !.redir_at = m.cp, !.redir_after = m.cp + n]

\* the first switch (*cp): the redirection operator
RedirOp(b, m) ==
    LET c  == Byte(b, m.cp)
        c1 == Byte(b, m.cp + 1)
        kind == IF c = GT
                THEN IF c1 = GT THEN "SOP_REDIR_OUT_APPEND" ELSE "SOP_REDIR_OUT"
                ELSE IF c = LT
                THEN IF c1 = GT THEN "SOP_REDIR_INOUT" ELSE "SOP_REDIR_IN"
                ELSE "SOP_REDIR_NONE"
        n == IF c \in {GT, LT} THEN IF c1 = GT THEN 2 ELSE 1 ELSE 0
    IN  [m EXCEPT !.cp = @ + n, !.sop_redir = kind,
                  !.rd = @ \cup (IF n = 0 THEN {m.cp} ELSE {m.cp, m.cp + 1}),
                  !.redir_at = m.cp, !.redir_after = m.cp + n]

\* TargetScan that goes on to a second word after the target
TargetScan_TwoWords(b, m) ==
    LET c1 == EAT_BLANK(b, m.cp)
        c2 == IF Byte(b, c1) # NUL THEN GET_SEPER(b, c1) ELSE c1
        c3 == IF Byte(b, c1) # NUL
              THEN EAT_BLANK(b, GET_SEPER(b, EAT_BLANK(b, c2)))
              ELSE c1
    IN  [m EXCEPT !.cp = c3, !.redir_begin = c1, !.redir_end = c2,
                  !.rd = @ \cup Scanned(m.cp, c3),
                  !.toks = @ \cup Tok(c1, c2)]

\* TargetScan without the EAT_BLANK after the target
TargetScan_NoTrailingBlank(b, m) ==
    LET c1 == EAT_BLANK(b, m.cp)
        c2 == IF Byte(b, c1) # NUL THEN GET_SEPER(b, c1) ELSE c1
    IN  [m EXCEPT !.cp = c2, !.redir_begin = c1, !.redir_end = c2,
                  !.rd = @ \cup Scanned(m.cp, c2),
                  !.toks = @ \cup Tok(c1, c2)]

\* EAT_BLANK(cp); *redir_end = *redir_begin = cp;
\* if (*cp) { GET_SEPER(cp); *redir_end = cp; EAT_BLANK(cp); }
TargetScan(b, m) ==
    LET c1 == EAT_BLANK(b, m.cp)
        c2 == IF Byte(b, c1) # NUL THEN GET_SEPER(b, c1) ELSE c1
        c3 == IF Byte(b, c1) # NUL THEN EAT_BLANK(b, c2) ELSE c1
    IN  [m EXCEPT !.cp = c3, !.redir_begin = c1, !.redir_end = c2,
                  !.rd = @ \cup Scanned(m.cp, c3),
                  !.toks = @ \cup Tok(c1, c2)]

\* RedirTarget that scans a target whatever the kind is
RedirTarget_AnyKind(b, m) ==
    IF Byte(b, m.cp) # NUL
    THEN TargetScan(b, m)
    ELSE m

\* if (*sop_redir != SOP_REDIR_NONE && *cp) { ... }: the redirection target
RedirTarget(b, m) ==
    IF m.sop_redir # "SOP_REDIR_NONE" /\ Byte(b, m.cp) # NUL
    THEN TargetScan(b, m)
    ELSE m

\* ControlOp whose `|` case has no lookahead: `||` is two pipes
ControlOp_NoOr(b, m) ==
    LET c  == Byte(b, m.cp)
        c1 == Byte(b, m.cp + 1)
        op == IF c = AMP THEN IF c1 = AMP THEN "SOP_AND" ELSE "SOP_BG"
              ELSE IF c = PIPE THEN "SOP_PIPE"
              ELSE IF c = SEMI THEN "SOP_NEXT"
              ELSE "SOP_NONE"
        n == IF c = AMP THEN IF c1 = c THEN 2 ELSE 1
             ELSE IF c \in {PIPE, SEMI} THEN 1 ELSE 0
    IN  [m EXCEPT !.cp = @ + n, !.o = op,
                  !.rd = @ \cup (IF c \in {AMP, PIPE} THEN {m.cp, m.cp + 1} ELSE {m.cp}),
                  !.op_at = m.cp]

\* ControlOp whose `;` case forgets cp++
ControlOp_NextStays(b, m) ==
    LET c  == Byte(b, m.cp)
        c1 == Byte(b, m.cp + 1)
        op == IF c = AMP THEN IF c1 = AMP THEN "SOP_AND" ELSE "SOP_BG"
              ELSE IF c = PIPE THEN IF c1 = PIPE THEN "SOP_OR" ELSE "SOP_PIPE"
              ELSE IF c = SEMI THEN "SOP_NEXT"
              ELSE "SOP_NONE"
        n == IF c \in {AMP, PIPE} THEN IF c1 = c THEN 2 ELSE 1 ELSE 0
    IN  [m EXCEPT !.cp = @ + n, !.o = op,
                  !.rd = @ \cup (IF c \in {AMP, PIPE} THEN {m.cp, m.cp + 1} ELSE {m.cp}),
                  !.op_at = m.cp]

\* the second switch (*cp): the control operator
ControlOp(b, m) ==
    LET c  == Byte(b, m.cp)
        c1 == Byte(b, m.cp + 1)
        op == IF c = AMP THEN IF c1 = AMP THEN "SOP_AND" ELSE "SOP_BG"
              ELSE IF c = PIPE THEN IF c1 = PIPE THEN "SOP_OR" ELSE "SOP_PIPE"
              ELSE IF c = SEMI THEN "SOP_NEXT"
              ELSE "SOP_NONE"
        n == IF c \in {AMP, PIPE} THEN IF c1 = c THEN 2 ELSE 1
             ELSE IF c = SEMI THEN 1 ELSE 0
    IN  [m EXCEPT !.cp = @ + n, !.o = op,
                  !.rd = @ \cup (IF c \in {AMP, PIPE} THEN {m.cp, m.cp + 1} ELSE {m.cp}),
                  !.op_at = m.cp]

\* if (*cp) { ... }: everything after the command is marked
Statement(b, m) ==
    IF Byte(b, m.cmd_begin) # NUL
    THEN ControlOp(b, RedirTarget(b, RedirOp(b, ParamPhase(b, m))))
    ELSE [m EXCEPT !.redir_at = m.cp, !.redir_after = m.cp, !.op_at = m.cp]

\* One call: the values it stores through its output pointers ("context" is
\* *context, "o" the value returned), with the record of what it did.
shell_command_param_split(b, in, ctx) ==
    Statement(b, CommandPhase(b, Enter(in, ctx)))

(*************************** the caller ************************************)
shellVars == <<buf, input, context, cmdb, cmde, paramsb, paramse, r,
               redir_begin, redir_end, o, pc, stmts, shape>>

vars == <<buf, input, context, cmdb, cmde, paramsb, paramse, r,
          redir_begin, redir_end, o, pc, stmts, shape,
          chain, b64, parenth, path, unescape>>

\* each program of the repository is a main() of its own: while one runs,
\* the variables of the others do not exist
Off == <<>>

UtilsOff == b64 = Off /\ parenth = Off /\ path = Off /\ unescape = Off

Strings(S, n) == UNION {[1 .. k -> S] : k \in 0 .. n}

\* the caller's output variables are declared without a value and are
\* written by the first call before anything reads them
Outputs0 ==
    /\ cmdb = NULL /\ cmde = NULL /\ paramsb = NULL /\ paramse = NULL
    /\ redir_begin = NULL /\ redir_end = NULL
    /\ r = "SOP_REDIR_NONE" /\ o = "SOP_NONE"
    /\ pc = "call" /\ stmts = <<>>

\* every short string; the chain starts with the buffer (context still NULL)
\* or resumes cursor-only from any offset of it
InitShort ==
    /\ buf \in Strings(Alphabet, MaxLen)
    /\ \/ input = 0 /\ context = NULL
       \/ input = NULL /\ context \in 0 .. Len(buf)
    /\ shape = <<>>
    /\ Outputs0

\* the words a generated statement is made of: a plain word, a quoted word
\* holding an operator character and a blank, a word whose quote never closes
Words == {<<LETTER>>, <<DQ, SEMI, SP, DQ>>, <<DQ, LETTER>>}

\* the blanks between two words
Seps == {<<SP>>, <<TAB>>, <<SP, SP>>}

\* what follows the last word
Tails == {<<>>, <<SP>>, <<SEMI>>, <<GT, LETTER>>,
          <<SP, AMP, AMP, LETTER>>, <<SP, GT, SP, LETTER, SP, LETTER>>,
          <<SP, LT, GT, DQ, PIPE, DQ, PIPE, PIPE>>,
          <<SP, GT, SP, LETTER, SP, LETTER, SP, SEMI, SP>>,
          <<GT, GT, SP, LETTER, SP, AMP, AMP, SP, LETTER, SP, LETTER>>}

RECURSIVE Flatten(_)
Flatten(ss) == IF ss = <<>> THEN <<>> ELSE Head(ss) \o Flatten(Tail(ss))

\* one statement with up to MaxWords parameter words
InitStmt ==
    /\ \E c \in Words, t \in Tails :
       \E ps \in UNION {[1 .. k -> Seps \X Words] : k \in 0 .. MaxWords} :
          buf = c \o Flatten([i \in 1 .. Len(ps) |-> ps[i][1] \o ps[i][2]]) \o t
    /\ input = 0 /\ context = NULL
    /\ shape = <<>>
    /\ Outputs0

\* A chain of statements `cmd word > target` joined by `&&`.  shape[i] lays
\* out statement i: clen the length of its command, bj and aj whether a
\* blank stands before and after the `&&` that follows it.
Rep(n, c) == [i \in 1 .. n |-> c]

StmtText(l) == Rep(l.clen, LETTER) \o <<SP, LETTER, SP, GT, SP, LETTER>>

JoinText(l) ==
    (IF l.bj THEN <<SP>> ELSE <<>>) \o <<AMP, AMP>> \o (IF l.aj THEN <<SP>> ELSE <<>>)

RECURSIVE ChainText(_)
ChainText(sh) ==
    IF sh = <<>> THEN <<>>
    ELSE IF Len(sh) = 1 THEN StmtText(sh[1])
    ELSE StmtText(sh[1]) \o JoinText(sh[1]) \o ChainText(Tail(sh))

Layouts == [clen : 1 .. 2, bj : BOOLEAN, aj : BOOLEAN]

InitChain ==
    /\ shape \in UNION {[1 .. n -> Layouts] : n \in 1 .. MaxStmts}
    /\ ~shape[Len(shape)].bj /\ ~shape[Len(shape)].aj
    /\ buf = ChainText(shape)
    /\ input = 0 /\ context = NULL
    /\ Outputs0

Init ==
    /\ InitShort \/ InitStmt \/ InitChain
    /\ chain = Off /\ UtilsOff

\* do { o = shell_command_param_split(input, ..., &context); input = NULL; }
\* while (o != SOP_NONE);
Call ==
    /\ pc = "call"
    /\ LET s == shell_command_param_split(buf, input, context)
       IN  /\ cmdb' = s.cmd_begin
           /\ cmde' = s.cmd_end
           /\ paramsb' = s.params_begin
           /\ paramse' = s.params_end
           /\ r' = s.sop_redir
           /\ redir_begin' = s.redir_begin
           /\ redir_end' = s.redir_end
           /\ context' = s.cp
           /\ o' = s.o
           /\ stmts' = Append(stmts, s)
           /\ pc' = IF s.o # "SOP_NONE" THEN "call" ELSE "done"
    /\ input' = NULL
    /\ UNCHANGED <<buf, shape, chain, b64, parenth, path, unescape>>

Next == Call

Spec == Init /\ [][Next]_vars

(*************************** misuse ****************************************)
\* enum shell_operator, enum shell_redir
OPERATORS ==
    {"SOP_NONE", "SOP_AND", "SOP_OR", "SOP_BG", "SOP_PIPE", "SOP_NEXT"}

REDIRS ==
    {"SOP_REDIR_NONE", "SOP_REDIR_OUT_APPEND", "SOP_REDIR_OUT",
     "SOP_REDIR_IN", "SOP_REDIR_INOUT"}

\* the documented usage with the buffer left out of the first call:
\* context = NULL; o = shell_command_param_split(NULL, ..., &context);
InitMisuse ==
    /\ buf \in Strings(Alphabet, MaxLen)
    /\ input = NULL
    /\ context = NULL
    /\ shape = <<>>
    /\ Outputs0
    /\ chain = Off /\ UtilsOff

\* The call with cp == NULL. The outputs are reset (they are NULL already),
\* then EAT_BLANK reads *cp through the null pointer, which is undefined: the
\* process is killed at the read, or the read yields a byte. A NUL there makes
\* the call return SOP_NONE with cmd_begin == cmd_end == *context == NULL;
\* with any other byte the scan goes on through memory that is not the
\* caller's, and what is returned is not determined.
CallNull ==
    /\ pc = "call"
    /\ input = NULL
    /\ context = NULL
    /\ \/ /\ pc' = "SIGSEGV"
          /\ stmts' = Append(stmts, [Enter(input, context) EXCEPT !.rd = {NULL}])
          /\ UNCHANGED <<cmdb, cmde, paramsb, paramse, r, redir_begin,
                         redir_end, context, o>>
       \/ LET s == shell_command_param_split(buf, input, context)
          IN  /\ cmdb' = s.cmd_begin
              /\ cmde' = s.cmd_end
              /\ paramsb' = s.params_begin
              /\ paramse' = s.params_end
              /\ r' = s.sop_redir
              /\ redir_begin' = s.redir_begin
              /\ redir_end' = s.redir_end
              /\ context' = s.cp
              /\ o' = s.o
              /\ stmts' = Append(stmts, s)
              /\ pc' = "done"
       \/ \E op \in OPERATORS, kind \in REDIRS :
              /\ o' = op
              /\ r' = kind
              /\ stmts' = Append(stmts, [Enter(input, context) EXCEPT
                                            !.o = op, !.sop_redir = kind,
                                            !.rd = {NULL}])
              /\ pc' = "undefined"
              /\ UNCHANGED <<cmdb, cmde, paramsb, paramse, redir_begin,
                             redir_end, context>>
    /\ input' = NULL
    /\ UNCHANGED <<buf, shape, chain, b64, parenth, path, unescape>>

NextMisuse == CallNull

SpecMisuse == InitMisuse /\ [][NextMisuse]_vars

(*************************** two chains ************************************)
MaxPairLen == 2

PairAlphabet == {SP, AMP, SEMI, LETTER}

\* the single caller's variables while another program runs
ShellOff ==
    /\ buf = <<>> /\ input = NULL /\ context = NULL /\ shape = <<>>
    /\ cmdb = NULL /\ cmde = NULL /\ paramsb = NULL /\ paramse = NULL
    /\ redir_begin = NULL /\ redir_end = NULL
    /\ r = "SOP_REDIR_NONE" /\ o = "SOP_NONE"
    /\ pc = "off" /\ stmts = <<>>

\* a caller as the documented usage declares it, about to make its first call
Caller(b) ==
    [buf |-> b, input |-> 0, context |-> NULL, o |-> "SOP_NONE",
     pc |-> "call", stmts |-> <<>>]

InitPair ==
    /\ \E b1, b2 \in Strings(PairAlphabet, MaxPairLen) :
          chain = <<Caller(b1), Caller(b2)>>
    /\ ShellOff
    /\ UtilsOff

\* One call made by caller k with a cursor variable that is not its own:
\* the function keeps the cursor of caller 1 for everybody.
SplitFor_OneCursor(ch, k) ==
    LET c == ch[k]
        s == shell_command_param_split(c.buf, c.input, ch[1].context)
        c1 == [ch EXCEPT ![1].context = s.cp]
    IN  [c1 EXCEPT ![k].o = s.o,
                   ![k].input = NULL,
                   ![k].stmts = Append(@, s),
                   ![k].pc = IF s.o # "SOP_NONE" THEN "call" ELSE "done"]

\* One call made by caller k: the function reads the arguments and *context
\* of this caller, keeps cp and o in locals, and stores through the pointers
\* this caller passed.
SplitFor(ch, k) ==
    LET c == ch[k]
        s == shell_command_param_split(c.buf, c.input, c.context)
    IN  [ch EXCEPT ![k].context = s.cp,
                   ![k].o = s.o,
                   ![k].input = NULL,
                   ![k].stmts = Append(@, s),
                   ![k].pc = IF s.o # "SOP_NONE" THEN "call" ELSE "done"]

PairCall(k) ==
    /\ chain[k].pc = "call"
    /\ chain' = SplitFor(chain, k)
    /\ UNCHANGED shellVars
    /\ UNCHANGED <<b64, parenth, path, unescape>>

NextPair == \E k \in {1, 2} : PairCall(k)

SpecPair == InitPair /\ [][NextPair]_vars

(*************************** b64.c *****************************************)
MaxBytes == 4

\* byte values: all bits clear, all set, alternating, and a letter ('f')
ByteSample == {0, 85, 102, 170, 255}

EQ == 61

\* "ABCDEFGHIJKLMNOPQRSTUVWXYZabcdefghijklmnopqrstuvwxyz0123456789+/"
base64_table ==
    [k \in 0 .. 63 |->
        IF k < 26 THEN 65 + k
        ELSE IF k < 52 THEN 97 + (k - 26)
        ELSE IF k < 62 THEN 48 + (k - 52)
        ELSE IF k = 62 THEN 43
        ELSE 47]

\* x | y on bytes
RECURSIVE BitOr(_, _, _)
BitOr(x, y, bits) ==
    IF bits = 0 THEN 0
    ELSE (IF x % 2 = 1 \/ y % 2 = 1 THEN 1 ELSE 0)
         + 2 * BitOr(x \div 2, y \div 2, bits - 1)

U8(x) == x % 256

\* input[i] of an array of n bytes
At(x, i) == x[i + 1]

\* the four characters the loop body writes for the bytes at i, i+1, i+2
EncodeGroup_PadLast(x, i) ==
    LET n == Len(x)
        a == At(x, i)
        b == IF i + 1 < n THEN At(x, i + 1) ELSE 0
        c == IF i + 2 < n THEN At(x, i + 2) ELSE 0
    IN  <<base64_table[a \div 4],
          base64_table[BitOr((a % 4) * 16, b \div 16, 8)],
          IF i + 1 < n THEN base64_table[BitOr((b % 16) * 4, c \div 64, 8)]
                       ELSE EQ,
          EQ>>

EncodeGroup(x, i) ==
    LET n == Len(x)
        a == At(x, i)
        b == IF i + 1 < n THEN At(x, i + 1) ELSE 0
        c == IF i + 2 < n THEN At(x, i + 2) ELSE 0
    IN  <<base64_table[a \div 4],
          base64_table[BitOr((a % 4) * 16, b \div 16, 8)],
          IF i + 1 < n THEN base64_table[BitOr((b % 16) * 4, c \div 64, 8)]
                       ELSE EQ,
          IF i + 2 < n THEN base64_table[c % 64] ELSE EQ>>

\* for (i = 0, j = 0; i < in_length; i += 3, j += 4)
RECURSIVE EncodeLoop(_, _)
EncodeLoop(x, i) ==
    IF i < Len(x) THEN EncodeGroup(x, i) \o EncodeLoop(x, i + 3) ELSE <<>>

\* rc, *required and the bytes written to output (none when it is too small)
b64_encode(x, out_length) ==
    LET output_size == 4 * ((Len(x) + 2) \div 3) + 1
    IN  IF out_length < output_size
        THEN [rc |-> "ENOMEM", required |-> output_size, output |-> <<>>]
        ELSE [rc |-> "ENOERR", required |-> output_size,
              output |-> EncodeLoop(x, 0) \o <<NUL>>]

b64_decode_bin(c) ==
    IF c >= 65 /\ c <= 90 THEN c - 65
    ELSE IF c >= 97 /\ c <= 122 THEN c - 97 + 26
    ELSE IF c >= 48 /\ c <= 57 THEN c - 48 + 52
    ELSE IF c = 43 THEN 62
    ELSE IF c = 47 THEN 63
    ELSE 0

\* strlen of a buffer that holds a terminator
strlen(t) == CHOOSE k \in 0 .. Len(t) - 1 :
                 /\ t[k + 1] = NUL
                 /\ \A h \in 1 .. k : t[h] # NUL

\* one round of the decoding loop: out is output[0 .. j-1]
DecodeGroup(t, i, out, output_length) ==
    LET a == b64_decode_bin(At(t, i))
        b == b64_decode_bin(At(t, i + 1))
        c == b64_decode_bin(At(t, i + 2))
        d == b64_decode_bin(At(t, i + 3))
        o1 == Append(out, U8(BitOr(U8(a * 4), b \div 16, 8)))
        o2 == IF At(t, i + 2) # EQ /\ Len(o1) < output_length
              THEN Append(o1, U8(BitOr(U8(b * 16), c \div 4, 8)))
              ELSE o1
    IN  IF At(t, i + 3) # EQ /\ Len(o2) < output_length
        THEN Append(o2, U8(BitOr(U8(c * 64), d, 8)))
        ELSE o2

\* for (i = 0; i < input_length; i += 4)
RECURSIVE DecodeLoop(_, _, _, _, _)
DecodeLoop(t, input_length, i, out, output_length) ==
    IF i < input_length
    THEN DecodeLoop(t, input_length, i + 4,
                    DecodeGroup(t, i, out, output_length), output_length)
    ELSE out

b64_decode(t, input_length, output_length) ==
    LET output_size == (strlen(t) * 3) \div 4
    IN  IF output_length < output_size
        THEN [rc |-> "ENOMEM", required |-> output_size, output |-> <<>>]
        ELSE LET out == DecodeLoop(t, input_length, 0, <<>>, output_length)
             IN  [rc |-> "ENOERR", required |-> Len(out), output |-> out]

InitB64 ==
    /\ \E x \in Strings(ByteSample, MaxBytes) :
          b64 = [pc |-> "encode", x |-> x, out_length |-> 0, enc |-> Off,
                 output_length |-> 0, dec |-> Off]
    /\ ShellOff /\ chain = Off
    /\ parenth = Off /\ path = Off /\ unescape = Off

Near(k) == {h \in {k - 1, k, k + 1} : h >= 0}

\* b64_encode(x, n, encoded_output, out_length, &req) with a buffer of about
\* the size needed
Encode ==
    /\ b64.pc = "encode"
    /\ \E out_length \in Near(4 * ((Len(b64.x) + 2) \div 3) + 1) :
          LET e == b64_encode(b64.x, out_length)
          IN  b64' = [b64 EXCEPT !.out_length = out_length, !.enc = e,
                                 !.pc = IF e.rc = "ENOERR" THEN "decode"
                                                           ELSE "done"]
    /\ UNCHANGED shellVars
    /\ UNCHANGED <<chain, parenth, path, unescape>>

\* b64_decode(s, strlen(s), decoded_output, output_length, &req) of the
\* string just encoded
Decode ==
    /\ b64.pc = "decode"
    /\ \E output_length \in Near((strlen(b64.enc.output) * 3) \div 4) :
          b64' = [b64 EXCEPT !.output_length = output_length,
                             !.dec = b64_decode(b64.enc.output,
                                                strlen(b64.enc.output),
                                                output_length),
                             !.pc = "done"]
    /\ UNCHANGED shellVars
    /\ UNCHANGED <<chain, parenth, path, unescape>>

NextB64 == Encode \/ Decode

SpecB64 == InitB64 /\ [][NextB64]_vars

(*************************** b64_decode on any string **********************)
MaxText == 5

\* a letter, padding, the last character of the table
TextAlphabet == {65, EQ, 47}

\* the offsets of input the loop of b64_decode reads: input[i .. i+3] for
\* every i it runs with
DecodeReads(input_length) ==
    UNION {{i, i + 1, i + 2, i + 3} :
              i \in {k \in 0 .. input_length - 1 : k % 4 = 0}}

\* b64_decode(input, input_length, output, output_length, &req) about to be
\* called: mem is the array that holds the string, its terminator, and then
\* three bytes that are not the caller's
InitDecode ==
    /\ \E t \in Strings(TextAlphabet, MaxText), after \in {0, 65} :
       \E input_length \in 0 .. Len(t), output_length \in 0 .. MaxText - 1 :
          b64 = [pc |-> "call", mem |-> t \o <<NUL, after, after, after>>,
                 input_length |-> input_length,
                 output_length |-> output_length, dec |-> Off]
    /\ ShellOff /\ chain = Off
    /\ parenth = Off /\ path = Off /\ unescape = Off

\* The call. A read after the terminator or a write at or after
\* output[output_length] is undefined: the process is killed there, or the
\* read yields the byte that happens to follow and the write lands outside
\* the buffer, and the call goes on. dec.output is every byte stored through
\* output[j++], in order.
DecodeAny ==
    /\ b64.pc = "call"
    /\ LET d == b64_decode(b64.mem, b64.input_length, b64.output_length)
           outside ==
               /\ d.rc = "ENOERR"
               /\ \/ \E x \in DecodeReads(b64.input_length) : x > strlen(b64.mem)
                  \/ Len(d.output) > b64.output_length
       IN  \/ b64' = [b64 EXCEPT !.dec = d, !.pc = "done"]
           \/ /\ outside
              /\ b64' = [b64 EXCEPT !.pc = "SIGSEGV"]
    /\ UNCHANGED shellVars
    /\ UNCHANGED <<chain, parenth, path, unescape>>

NextDecode == DecodeAny

SpecDecode == InitDecode /\ [][NextDecode]_vars

(*************************** parenth.c *************************************)
MaxParen == 5

LP == 40
RP == 41

ParenAlphabet == {LP, RP, 97, 98}

\* getMatchingBrace that does not count the parentheses opened on the way
RECURSIVE getMatchingBrace_NoNesting(_, _, _)
getMatchingBrace_NoNesting(mem, d, num) ==
    IF mem[d + 1] = NUL THEN d
    ELSE IF mem[d + 1] = RP /\ num = 1 THEN d
    ELSE getMatchingBrace_NoNesting(mem, d + 1, num)

\* mem is the array with its terminator, d an offset into it, num the count
\* kept by the loop: a uint32_t that starts at 1 and grows by at most one per
\* character, so on these arrays it never wraps
RECURSIVE getMatchingBrace(_, _, _)
getMatchingBrace(mem, d, num) ==
    IF mem[d + 1] = NUL THEN d
    ELSE IF mem[d + 1] = LP THEN getMatchingBrace(mem, d + 1, num + 1)
    ELSE IF mem[d + 1] = RP /\ num = 1 THEN d
    ELSE IF mem[d + 1] = RP THEN getMatchingBrace(mem, d + 1, num - 1)
    ELSE getMatchingBrace(mem, d + 1, num)

\* while (len--) *s++ = *d++;
RECURSIVE CopySpan(_, _)
CopySpan(m, len) ==
    IF len = 0 THEN m
    ELSE CopySpan([mem |-> [m.mem EXCEPT ![m.s + 1] = m.mem[m.d + 1]],
                   s |-> m.s + 1, d |-> m.d + 1], len - 1)

\* one round of the loop of minRemoveToMakeValid
RemoveStep(m) ==
    LET c == m.mem[m.d + 1]
        t == getMatchingBrace(m.mem, m.d + 1, 1)
    IN  IF c = LP
        THEN IF m.mem[t + 1] # NUL
             THEN CopySpan(m, t - m.d + 1)
             ELSE [m EXCEPT !.d = @ + 1]
        ELSE IF c = RP
        THEN [m EXCEPT !.d = @ + 1]
        ELSE [mem |-> [m.mem EXCEPT ![m.s + 1] = c],
              s |-> m.s + 1, d |-> m.d + 1]

RECURSIVE RemoveLoop(_)
RemoveLoop(m) ==
    IF m.mem[m.d + 1] = NUL THEN m ELSE RemoveLoop(RemoveStep(m))

\* the array after the call; the string returned starts at its first byte
minRemoveToMakeValid(ss) ==
    LET m == RemoveLoop([mem |-> ss, s |-> 0, d |-> 0])
    IN  [m.mem EXCEPT ![m.s + 1] = NUL]

\* the string held by an array: the bytes before its first terminator
Str(mem) == SubSeq(mem, 1, strlen(mem))

InitParenth ==
    /\ \E x \in Strings(ParenAlphabet, MaxParen) :
          parenth = [pc |-> "call", input |-> x \o <<NUL>>, result |-> Off]
    /\ ShellOff /\ chain = Off
    /\ b64 = Off /\ path = Off /\ unescape = Off

\* strcpy(input, t[i].input); ... minRemoveToMakeValid(input)
Remove ==
    /\ parenth.pc = "call"
    /\ parenth' = [parenth EXCEPT !.result = minRemoveToMakeValid(parenth.input),
                                  !.pc = "done"]
    /\ UNCHANGED shellVars
    /\ UNCHANGED <<chain, b64, path, unescape>>

NextParenth == Remove

SpecParenth == InitParenth /\ [][NextParenth]_vars

(*************************** simplify_path.c *******************************)
MaxPath == 7

SLASH == 47
DOT == 46

PathAlphabet == {SLASH, DOT, 97}

\* a comparison that stops at the end of the literal, whatever n is
RECURSIVE strncmp_PrefixOnly(_, _, _, _, _)
strncmp_PrefixOnly(lit, mem, p, n, k) ==
    IF k >= n \/ k >= Len(lit) THEN 0
    ELSE IF lit[k + 1] # mem[p + k + 1] THEN 1
    ELSE strncmp_PrefixOnly(lit, mem, p, n, k + 1)

\* strncmp(lit, mem + p, n), from character k on: 0 when equal, 1 otherwise
RECURSIVE strncmp(_, _, _, _, _)
strncmp(lit, mem, p, n, k) ==
    LET a == IF k < Len(lit) THEN lit[k + 1] ELSE NUL
    IN  IF k >= n THEN 0
        ELSE IF a # mem[p + k + 1] THEN 1
        ELSE IF a = NUL THEN 0
        ELSE strncmp(lit, mem, p, n, k + 1)

\* for (rd2 = ++rd1; *rd2 && *rd2 != '/'; rd2++);
RECURSIVE FragmentEnd(_, _)
FragmentEnd(mem, rd2) ==
    IF mem[rd2 + 1] # NUL /\ mem[rd2 + 1] # SLASH
    THEN FragmentEnd(mem, rd2 + 1)
    ELSE rd2

\* while (*wr != '/') wr--;
RECURSIVE BackToSlash(_, _)
BackToSlash(mem, wr) ==
    IF mem[wr + 1] # SLASH THEN BackToSlash(mem, wr - 1) ELSE wr

\* while (*rd1 && rd1 <= rd2) *wr++ = *rd1++;
RECURSIVE WriteFragment(_, _)
WriteFragment(m, rd2) ==
    IF m.mem[m.rd1 + 1] # NUL /\ m.rd1 <= rd2
    THEN WriteFragment([mem |-> [m.mem EXCEPT ![m.wr + 1] = m.mem[m.rd1 + 1]],
                        wr |-> m.wr + 1, rd1 |-> m.rd1 + 1], rd2)
    ELSE m

\* one round of the loop; root is offset 0
FragmentStep(m) ==
    LET rd1 == m.rd1 + 1
        rd2 == FragmentEnd(m.mem, rd1)
        m1 == [m EXCEPT !.rd1 = rd1]
        m2 == IF rd2 = rd1 \/ strncmp(<<DOT>>, m.mem, rd1, rd2 - rd1, 0) = 0
              THEN m1
              ELSE IF strncmp(<<DOT, DOT>>, m.mem, rd1, rd2 - rd1, 0) = 0
              THEN IF m.wr - 1 # 0
                   THEN [m1 EXCEPT !.wr = BackToSlash(m.mem, m.wr - 2) + 1]
                   ELSE m1
              ELSE WriteFragment(m1, rd2)
    IN  [m2 EXCEPT !.rd1 = rd2]

RECURSIVE FragmentLoop(_)
FragmentLoop(m) ==
    IF m.mem[m.rd1 + 1] # NUL THEN FragmentLoop(FragmentStep(m)) ELSE m

\* what the call returns (root, offset 0, or NULL) and the array after it
simplify_path(str) ==
    IF str[1] # SLASH
    THEN [ret |-> NULL, mem |-> str]
    ELSE LET m == FragmentLoop([mem |-> str, wr |-> 1, rd1 |-> 0])
             t == IF m.mem[m.wr + 1] # NUL
                  THEN [m.mem EXCEPT ![m.wr + 1] = NUL]
                  ELSE m.mem
             wr == m.wr - 1
         IN  [ret |-> 0,
              mem |-> IF 0 # wr /\ t[wr + 1] = SLASH
                      THEN [t EXCEPT ![wr + 1] = NUL]
                      ELSE t]

InitPath ==
    /\ \E x \in Strings(PathAlphabet, MaxPath) :
          path = [pc |-> "call", input |-> x \o <<NUL>>, result |-> Off]
    /\ ShellOff /\ chain = Off
    /\ b64 = Off /\ parenth = Off /\ unescape = Off

\* simplify_path(t[i].input)
Simplify ==
    /\ path.pc = "call"
    /\ path' = [path EXCEPT !.result = simplify_path(path.input),
                            !.pc = "done"]
    /\ UNCHANGED shellVars
    /\ UNCHANGED <<chain, b64, parenth, unescape>>

NextPath == Simplify

SpecPath == InitPath /\ [][NextPath]_vars

(*************************** c_unescape.c **********************************)
MaxSrc == 4

C_ESCAPE_CHAR == 92

\* backslash, 'x', an octal digit, a hex digit that is not octal, a letter
\* with an escape of its own
SrcAlphabet == {C_ESCAPE_CHAR, 120, 55, 57, 110}

unescape_char(c) ==
    CASE c = 39 -> 39
      [] c = 34 -> 34
      [] c = 63 -> 63
      [] c = 92 -> 92
      [] c = 97 -> 7
      [] c = 98 -> 8
      [] c = 102 -> 12
      [] c = 110 -> 10
      [] c = 114 -> 13
      [] c = 116 -> 9
      [] c = 118 -> 11
      [] OTHER -> c

is_octal_digit(c) == 48 <= c /\ c < 56

is_hex_digit(c) ==
    \/ 48 <= c /\ c <= 57
    \/ 65 <= c /\ c <= 70
    \/ 97 <= c /\ c <= 102

\* the value is_hex_digit stores through val
hex_digit(c) ==
    IF 48 <= c /\ c <= 57 THEN c - 48
    ELSE IF 65 <= c /\ c <= 70 THEN c - 65 + 10
    ELSE c - 97 + 10

octal_value_1(v) == v

octal_value_2(v1, v2) == U8(BitOr(v1 * 8, v2, 8))

octal_value_3(v1, v2, v3) == U8(BitOr(v1 * 64, BitOr(v2 * 8, v3, 8), 9))

hex_value_1(v) == v

hex_value_2(v1, v2) == U8(BitOr(v1 * 16, v2, 8))

\* dest holds the bytes written so far (dest has moved past them), dest_len
\* the room that is left
c_unescape_init(junk, dest_len) ==
    [v1 |-> junk, v2 |-> junk, st |-> "NONE", required |-> 0,
     dest |-> <<>>, dest_len |-> dest_len]

\* c_unescape_append that writes without looking at dest_len
c_unescape_append_NoRoomTest(parser, c) ==
    [parser EXCEPT !.dest = Append(@, c),
                   !.dest_len = IF @ > 0 THEN @ - 1 ELSE 0,
                   !.required = @ + 1]

c_unescape_append(parser, c) ==
    IF parser.dest_len # 0
    THEN [parser EXCEPT !.dest = Append(@, c), !.dest_len = @ - 1,
                        !.required = @ + 1]
    ELSE [parser EXCEPT !.required = @ + 1]

\* the else branches of the four digit states: the value held so far is
\* written, then c starts a new escape or is written too
FlushThen(parser, held, c) ==
    LET p1 == c_unescape_append(parser, held)
    IN  IF c = C_ESCAPE_CHAR
        THEN [p1 EXCEPT !.st = "BACKSLASH"]
        ELSE c_unescape_append([p1 EXCEPT !.st = "NONE"], c)

c_unescape_process_one(parser, c) ==
    CASE parser.st = "BACKSLASH" ->
            IF is_octal_digit(c)
            THEN [parser EXCEPT !.v1 = c - 48, !.st = "OCTAL1"]
            ELSE IF c = 120
            THEN [parser EXCEPT !.st = "HEX"]
            ELSE c_unescape_append([parser EXCEPT !.st = "NONE"],
                                   unescape_char(c))
      [] parser.st = "HEX" ->
            IF is_hex_digit(c)
            THEN [parser EXCEPT !.v1 = hex_digit(c), !.st = "HEX1"]
            ELSE FlushThen(parser, unescape_char(120), c)
      [] parser.st = "HEX1" ->
            IF is_hex_digit(c)
            THEN c_unescape_append([parser EXCEPT !.st = "NONE"],
                                   hex_value_2(parser.v1, hex_digit(c)))
            ELSE FlushThen(parser, hex_value_1(parser.v1), c)
      [] parser.st = "OCTAL1" ->
            IF is_octal_digit(c)
            THEN [parser EXCEPT !.v2 = c - 48, !.st = "OCTAL2"]
            ELSE FlushThen(parser, octal_value_1(parser.v1), c)
      [] parser.st = "OCTAL2" ->
            IF is_octal_digit(c)
            THEN c_unescape_append([parser EXCEPT !.st = "NONE"],
                                   octal_value_3(parser.v1, parser.v2, c - 48))
            ELSE FlushThen(parser, octal_value_2(parser.v1, parser.v2), c)
      [] OTHER ->
            IF c = C_ESCAPE_CHAR
            THEN [parser EXCEPT !.st = "BACKSLASH"]
            ELSE c_unescape_append(parser, c)

c_unescape_finalize(parser) ==
    CASE parser.st = "BACKSLASH" ->
            c_unescape_append(parser, unescape_char(C_ESCAPE_CHAR))
      [] parser.st = "HEX" -> c_unescape_append(parser, unescape_char(120))
      [] parser.st = "HEX1" -> c_unescape_append(parser, hex_value_1(parser.v1))
      [] parser.st = "OCTAL1" ->
            c_unescape_append(parser, octal_value_1(parser.v1))
      [] parser.st = "OCTAL2" ->
            c_unescape_append(parser, octal_value_2(parser.v1, parser.v2))
      [] OTHER -> parser

\* c_unescape(src, src_len, dest, dest_len, &req) entered: the parser is
\* initialised; v1 and v2 are left as they were on the stack
InitUnescape ==
    /\ \E src \in Strings(SrcAlphabet, MaxSrc), dest_len \in 0 .. MaxSrc,
          junk \in {0, 255} :
          unescape = [pc |-> "loop", src |-> src, src_len |-> Len(src),
                      dest_len |-> dest_len,
                      parser |-> c_unescape_init(junk, dest_len),
                      dest_len_required |-> NULL]
    /\ ShellOff /\ chain = Off
    /\ b64 = Off /\ parenth = Off /\ path = Off

\* while (src_len) { c = *src++; src_len--; c_unescape_process_one(&parser, c); }
ProcessOne ==
    /\ unescape.pc = "loop"
    /\ unescape.src_len # 0
    /\ LET c == unescape.src[Len(unescape.src) - unescape.src_len + 1]
       IN  unescape' = [unescape EXCEPT
                           !.src_len = @ - 1,
                           !.parser = c_unescape_process_one(@, c)]
    /\ UNCHANGED shellVars
    /\ UNCHANGED <<chain, b64, parenth, path>>

\* c_unescape_finalize(&parser); *dest_len_required = parser.required;
Finalize ==
    /\ unescape.pc = "loop"
    /\ unescape.src_len = 0
    /\ LET p == c_unescape_finalize(unescape.parser)
       IN  unescape' = [unescape EXCEPT !.parser = p,
                                        !.dest_len_required = p.required,
                                        !.pc = "done"]
    /\ UNCHANGED shellVars
    /\ UNCHANGED <<chain, b64, parenth, path>>

NextUnescape == ProcessOne \/ Finalize

SpecUnescape == InitUnescape /\ [][NextUnescape]_vars

(*************************** properties ************************************)
N == Len(buf)

Calls == 1 .. Len(stmts)

\* C1: the caller loop ends: every call that returns an operator other than
\* SOP_NONE leaves the cursor strictly after the pointer it started from and
\* never after the terminator, so the loop has made at most Len(buf) calls
\* while it is still running and at most Len(buf) + 1 when it has ended.
C1_LoopTerminates ==
    /\ \A i \in Calls :
          stmts[i].o # "SOP_NONE" =>
              /\ stmts[i].start < stmts[i].cp
              /\ stmts[i].cp <= N
    /\ pc = "call" => Len(stmts) <= N
    /\ pc = "done" => Len(stmts) <= N + 1 /\ o = "SOP_NONE"

\* a chain that needed every one of its Len(buf) + 1 calls
C1_Witness ==
    /\ pc = "done"
    /\ N >= 2
    /\ Len(stmts) = N + 1
    /\ stmts[1].start = 0

\* a returned pointer: inside the string, terminator included, or NULL
InBuf(x) == x \in 0 .. N

InBufOrNull(x) == x = NULL \/ InBuf(x)

\* C2: a call never dereferences an offset above Len(buf) (the terminator) and
\* every pointer it returns that is not NULL points into the string.
C2_BoundsSafe ==
    \A i \in Calls :
        LET s == stmts[i]
        IN  /\ \A x \in s.rd : InBuf(x)
            /\ InBuf(s.cmd_begin) /\ InBuf(s.cmd_end)
            /\ InBufOrNull(s.params_begin) /\ InBufOrNull(s.params_end)
            /\ InBufOrNull(s.redir_begin) /\ InBufOrNull(s.redir_end)
            /\ InBuf(s.cp)

\* a cursor-only call from inside the buffer whose token ends in a quote that
\* never closes, scanned up to the terminator
C2_Witness ==
    /\ Len(stmts) = 1
    /\ stmts[1].start > 0
    /\ N >= 2
    /\ buf[N] = DQ
    /\ N \in stmts[1].rd
    /\ stmts[1].cmd_end = N

IsOperator(c) == c \in {LT, GT, AMP, PIPE, SEMI}

\* the end of the last of the blank-separated words that start at p and
\* precede the first unquoted operator character or the terminator
RECURSIVE LastWordEnd(_, _)
LastWordEnd(b, p) ==
    LET e == GET_SEPER(b, p)
        n == EAT_BLANK(b, e)
    IN  IF n > e /\ Byte(b, n) # NUL /\ ~IsOperator(Byte(b, n))
        THEN LastWordEnd(b, n)
        ELSE e

NoTab(b) == \A k \in 0 .. Len(b) - 1 : Byte(b, k) # TAB

\* C3, on the buffers whose blanks are all spaces: when a blank follows the
\* command token, params starts at the first byte after the blanks and ends
\* at the end of the last blank-separated word before the first unquoted
\* operator character or the terminator, whether a blank, an operator or the
\* terminator follows that word.
C3_ParamsSpanAllWords ==
    NoTab(buf) =>
        \A i \in Calls :
            LET s == stmts[i]
            IN  IsBlank(Byte(buf, s.cmd_end)) =>
                    /\ s.params_begin = EAT_BLANK(buf, s.cmd_end)
                    /\ s.params_end = LastWordEnd(buf, EAT_BLANK(buf, s.cmd_end))

\* double quotes paired left to right: x opens a region when an even number
\* of quotes precedes it
QuotesBefore(b, x) == Cardinality({k \in 0 .. x - 1 : Byte(b, k) = DQ})

Opens(b, x) == Byte(b, x) = DQ /\ QuotesBefore(b, x) % 2 = 0

HasClose(b, x) == \E y \in x + 1 .. Len(b) - 1 : Byte(b, y) = DQ

Close(b, x) == CHOOSE y \in x + 1 .. Len(b) - 1 :
                  /\ Byte(b, y) = DQ
                  /\ \A z \in x + 1 .. y - 1 : Byte(b, z) # DQ

\* x lies between an opening quote and its matching closing quote
Quoted(b, x) ==
    /\ Byte(b, x) # DQ
    /\ QuotesBefore(b, x) % 2 = 1
    /\ HasClose(b, x)

InTok(s, x) == \E t \in s.toks : t[1] <= x /\ x < t[2]

\* the bytes call s took for separators: those it consumed outside every
\* token, and the byte each token scan stopped at
SepBytes(s) ==
    {x \in s.start .. s.cp - 1 : ~InTok(s, x)}
        \cup {t[2] : t \in {u \in s.toks : u[2] < N}}

\* C4: in a chain driven from the start of the buffer no byte between an
\* opening double quote and its matching closing quote is taken for a blank
\* or an operator, the redirection and control operators reported lie outside
\* every quoted region, and a quoted region lies wholly inside the token that
\* was being scanned when its quote opened.
C4_QuoteTransparent ==
    (stmts # <<>> /\ stmts[1].start = 0) =>
        \A i \in Calls :
            LET s == stmts[i]
            IN  /\ \A x \in SepBytes(s) : ~Quoted(buf, x)
                /\ \A x \in s.redir_at .. s.redir_after - 1 : ~Quoted(buf, x)
                /\ \A x \in s.op_at .. s.cp - 1 : ~Quoted(buf, x)
                /\ \A x \in s.start .. s.cp - 1 :
                      Opens(buf, x) /\ HasClose(buf, x) =>
                          \E t \in s.toks : t[1] <= x /\ Close(buf, x) < t[2]

\* a call that scanned a quoted region holding a separator character and
\* then reported a control operator
C4_Witness ==
    /\ stmts # <<>>
    /\ stmts[1].start = 0
    /\ stmts[1].o # "SOP_NONE"
    /\ \E x \in 0 .. stmts[1].op_at - 1 :
          Quoted(buf, x) /\ IsSeper(Byte(buf, x))

\* what the bytes at p spell as a redirection operator, and its length
RedirAt(b, p) ==
    IF Byte(b, p) = GT /\ Byte(b, p + 1) = GT THEN <<"SOP_REDIR_OUT_APPEND", 2>>
    ELSE IF Byte(b, p) = GT THEN <<"SOP_REDIR_OUT", 1>>
    ELSE IF Byte(b, p) = LT /\ Byte(b, p + 1) = GT THEN <<"SOP_REDIR_INOUT", 2>>
    ELSE IF Byte(b, p) = LT THEN <<"SOP_REDIR_IN", 1>>
    ELSE <<"SOP_REDIR_NONE", 0>>

\* C5: at the offset p where the command/parameter phase stops the kind
\* reported is the one the bytes at p spell (`>>`, `>`, `<>`, `<`, none), and
\* exactly the operator's bytes are consumed before the target scan, which
\* then skips blanks only.
C5_RedirRecognised ==
    \A i \in Calls :
        LET s == stmts[i]
            p == s.redir_at
        IN  /\ s.sop_redir = RedirAt(buf, p)[1]
            /\ s.redir_after = p + RedirAt(buf, p)[2]
            /\ s.redir_begin # NULL =>
                  /\ s.redir_begin >= s.redir_after
                  /\ \A x \in s.redir_after .. s.redir_begin - 1 :
                        IsBlank(Byte(buf, x))

\* `<>` after a parameter, with a target
C5_Witness ==
    \E i \in Calls :
        /\ stmts[i].sop_redir = "SOP_REDIR_INOUT"
        /\ stmts[i].params_begin # NULL
        /\ stmts[i].params_end > stmts[i].params_begin
        /\ stmts[i].redir_begin # NULL
        /\ stmts[i].redir_end > stmts[i].redir_begin

\* what the bytes at q spell as a control operator, and its length
ControlAt(b, q) ==
    IF Byte(b, q) = AMP /\ Byte(b, q + 1) = AMP THEN <<"SOP_AND", 2>>
    ELSE IF Byte(b, q) = AMP THEN <<"SOP_BG", 1>>
    ELSE IF Byte(b, q) = PIPE /\ Byte(b, q + 1) = PIPE THEN <<"SOP_OR", 2>>
    ELSE IF Byte(b, q) = PIPE THEN <<"SOP_PIPE", 1>>
    ELSE IF Byte(b, q) = SEMI THEN <<"SOP_NEXT", 1>>
    ELSE <<"SOP_NONE", 0>>

\* C6: at the offset q where the redirection phase stops the operator
\* returned is the one the bytes at q spell (`&&`, `&`, `||`, `|`, `;`, none,
\* the terminator included) and the new cursor is q plus its length.
C6_ControlRecognised ==
    \A i \in Calls :
        LET s == stmts[i]
            q == s.op_at
        IN  /\ s.o = ControlAt(buf, q)[1]
            /\ s.cp = q + ControlAt(buf, q)[2]
            /\ i = Len(stmts) => o = s.o /\ context = s.cp

\* `||` right after a redirection target
C6_Witness ==
    \E i \in Calls :
        /\ stmts[i].o = "SOP_OR"
        /\ stmts[i].redir_end # NULL
        /\ stmts[i].redir_end > stmts[i].redir_begin
        /\ stmts[i].op_at = stmts[i].redir_end

\* the offset at which statement i of a generated chain starts
RECURSIVE Base(_, _)
Base(sh, i) ==
    IF i = 1 THEN 0
    ELSE Base(sh, i - 1) + Len(StmtText(sh[i - 1])) + Len(JoinText(sh[i - 1]))

\* C7: a chain of n statements `cmd word > target` joined by `&&`, with or
\* without blanks around the `&&`, yields exactly n statements in buffer
\* order, each with its own command, parameter, kind `>` and target; the
\* first n - 1 calls return SOP_AND and the n-th returns SOP_NONE.
C7_ChainIterates ==
    shape # <<>> =>
        /\ Len(stmts) <= Len(shape)
        /\ pc = "done" => Len(stmts) = Len(shape)
        /\ \A i \in Calls :
              LET s == stmts[i]
                  c == Base(shape, i)
                  e == c + shape[i].clen
              IN  /\ s.cmd_begin = c /\ s.cmd_end = e
                  /\ s.params_begin = e + 1 /\ s.params_end = e + 2
                  /\ s.sop_redir = "SOP_REDIR_OUT"
                  /\ s.redir_begin = e + 5 /\ s.redir_end = e + 6
                  /\ s.o = IF i < Len(shape) THEN "SOP_AND" ELSE "SOP_NONE"

\* a finished chain of three statements, one `&&` with blanks around it and
\* one with none
C7_Witness ==
    /\ pc = "done"
    /\ Len(shape) >= 3
    /\ Len(stmts) = Len(shape)
    /\ shape[1].bj /\ shape[1].aj
    /\ ~shape[2].bj /\ ~shape[2].aj

\* C8: after every call the six range ends and the new cursor are positions
\* in buffer order: command.start <= command.end <= params.start <=
\* params.end <= target.start <= target.end <= cursor <= Len(buf).
C8_RangesOrdered ==
    \A i \in Calls :
        LET s == stmts[i]
        IN  /\ s.params_begin # NULL /\ s.params_end # NULL
            /\ s.redir_begin # NULL /\ s.redir_end # NULL
            /\ s.cmd_begin <= s.cmd_end
            /\ s.cmd_end <= s.params_begin
            /\ s.params_begin <= s.params_end
            /\ s.params_end <= s.redir_begin
            /\ s.redir_begin <= s.redir_end
            /\ s.redir_end <= s.cp
            /\ s.cp <= N

\* C9: after every call each of the three ranges is a pair of positions
\* inside the buffer; params is the empty range at command.end when no blank
\* follows the command token, and the target of a redirection operator that
\* ends the input is the empty range at that position.
C9_RangesDefined ==
    \A i \in Calls :
        LET s == stmts[i]
        IN  /\ InBuf(s.cmd_begin) /\ InBuf(s.cmd_end)
            /\ InBuf(s.params_begin) /\ InBuf(s.params_end)
            /\ InBuf(s.redir_begin) /\ InBuf(s.redir_end)
            /\ ~IsBlank(Byte(buf, s.cmd_end)) =>
                  s.params_begin = s.cmd_end /\ s.params_end = s.cmd_end
            /\ (s.sop_redir # "SOP_REDIR_NONE" /\ EAT_BLANK(buf, s.redir_after) = N) =>
                  s.redir_begin = N /\ s.redir_end = N

AllBlank(b) == \A k \in 0 .. Len(b) - 1 : IsBlank(Byte(b, k))

\* C10: for a buffer of spaces and tabs only (or empty) the first call
\* returns SOP_NONE and kind SOP_REDIR_NONE, leaves command, params and
\* target empty, and sets the cursor to Len(buf).
C10_BlankInput ==
    (AllBlank(buf) /\ stmts # <<>> /\ stmts[1].start = 0) =>
        /\ Len(stmts) = 1 /\ pc = "done"
        /\ o = "SOP_NONE" /\ r = "SOP_REDIR_NONE"
        /\ cmdb = cmde
        /\ paramsb = paramse
        /\ redir_begin = redir_end
        /\ context = N

\* the first call on a buffer that mixes spaces and tabs has returned
C10_Witness ==
    /\ AllBlank(buf)
    /\ \E k \in 0 .. N - 1 : Byte(buf, k) = SP
    /\ \E k \in 0 .. N - 1 : Byte(buf, k) = TAB
    /\ Len(stmts) = 1
    /\ stmts[1].start = 0
    /\ input = NULL

\* C11 as stated, on the buffers whose blanks are all spaces: after every
\* call the new cursor is the offset just past the control operator the call
\* consumed when the operator returned is not SOP_NONE, and Len(buf), the end
\* of input, when it is SOP_NONE.
C11_CursorPastOperatorOrEnd ==
    NoTab(buf) =>
        \A i \in Calls :
            LET s == stmts[i]
            IN  IF s.o # "SOP_NONE"
                THEN /\ ControlAt(buf, s.op_at)[2] > 0
                     /\ s.cp = s.op_at + ControlAt(buf, s.op_at)[2]
                ELSE s.cp = N

\* C11 amended: after every call the new cursor is the offset just past the
\* control operator the call consumed when the operator returned is not
\* SOP_NONE; when it is SOP_NONE the cursor is where the scan stopped, which
\* is the end of input or the offset of a byte that is not `&`, `|` or `;`
\* and is left unconsumed.
C11_CursorPastOperatorOrStop ==
    \A i \in Calls :
        LET s == stmts[i]
        IN  /\ IF s.o # "SOP_NONE"
               THEN /\ ControlAt(buf, s.op_at)[2] > 0
                    /\ s.cp = s.op_at + ControlAt(buf, s.op_at)[2]
               ELSE /\ s.cp = s.op_at
                    /\ s.cp <= N
                    /\ s.cp = N \/ Byte(buf, s.cp) \notin {AMP, PIPE, SEMI}
            /\ i = Len(stmts) => context = s.cp

\* a call on a tab-free buffer that returned SOP_NONE before the end of input,
\* and one that returned an operator
C11_Witness ==
    /\ NoTab(buf)
    /\ Len(stmts) >= 2
    /\ stmts[1].o # "SOP_NONE"
    /\ stmts[Len(stmts)].o = "SOP_NONE"
    /\ stmts[Len(stmts)].cp < N

\* C12: when, after the redirection target and the blanks that follow it, the
\* next byte is neither `&`, `|`, `;` nor the terminator, the call returns
\* SOP_NONE with the cursor at that byte: the rest is not consumed and a
\* control operator further on is not reported.
C12_TrailingTextStops ==
    \A i \in Calls :
        LET s == stmts[i]
            q == EAT_BLANK(buf, s.redir_end)
        IN  (s.redir_end # NULL /\ Byte(buf, q) \notin {AMP, PIPE, SEMI, NUL}) =>
                /\ s.o = "SOP_NONE"
                /\ s.cp = q
                /\ i = Len(stmts)
                /\ pc = "done" /\ o = "SOP_NONE" /\ context = q

\* text and then a control operator after the target, as in
\* ` echo hello > foo .txt ; `
C12_Witness ==
    /\ pc = "done"
    /\ Len(stmts) = 1
    /\ stmts[1].redir_end # NULL
    /\ stmts[1].redir_end > stmts[1].redir_begin
    /\ stmts[1].cp > stmts[1].redir_end
    /\ stmts[1].cp < N
    /\ \E x \in stmts[1].cp + 1 .. N - 1 : Byte(buf, x) = SEMI

\* single quotes paired left to right
SQuotesBefore(b, x) == Cardinality({k \in 0 .. x - 1 : Byte(b, k) = SQ})

SQuoted(b, x) ==
    /\ Byte(b, x) # SQ
    /\ SQuotesBefore(b, x) % 2 = 1
    /\ \E y \in x + 1 .. Len(b) - 1 : Byte(b, y) = SQ

NoDQ(b) == \A k \in 0 .. Len(b) - 1 : Byte(b, k) # DQ

\* C15, on the buffers without a double quote or a tab: in a chain driven
\* from the start of the buffer no byte between matching single quotes is
\* taken for a token separator.
C15_SingleQuoteTransparent ==
    (NoDQ(buf) /\ NoTab(buf) /\ stmts # <<>> /\ stmts[1].start = 0) =>
        \A i \in Calls :
            \A x \in SepBytes(stmts[i]) : ~SQuoted(buf, x)

Empty(b, e) == b = e

\* C16: a call whose first non-blank byte is a control-operator character
\* returns the operator spelled there with an empty command and empty
\* params; a call that finds only blanks up to the end of input returns
\* SOP_NONE with an empty statement; a redirection operator with nothing
\* after it is returned with an empty target; every value returned is one of
\* the six operators and five kinds.
C16_OperatorOnlyInput ==
    \A i \in Calls :
        LET s == stmts[i]
            f == EAT_BLANK(buf, s.start)
        IN  /\ s.o \in OPERATORS /\ s.sop_redir \in REDIRS
            /\ Byte(buf, f) \in {AMP, PIPE, SEMI} =>
                  /\ s.o = ControlAt(buf, f)[1]
                  /\ s.o # "SOP_NONE"
                  /\ s.cmd_begin = f
                  /\ Empty(s.cmd_begin, s.cmd_end)
                  /\ Empty(s.params_begin, s.params_end)
                  /\ s.sop_redir = "SOP_REDIR_NONE"
            /\ f = N =>
                  /\ s.o = "SOP_NONE" /\ s.sop_redir = "SOP_REDIR_NONE"
                  /\ Empty(s.cmd_begin, s.cmd_end)
                  /\ Empty(s.params_begin, s.params_end)
                  /\ Empty(s.redir_begin, s.redir_end)
                  /\ s.cp = N
            /\ (s.sop_redir # "SOP_REDIR_NONE" /\ EAT_BLANK(buf, s.redir_after) = N) =>
                  /\ s.sop_redir = RedirAt(buf, s.redir_at)[1]
                  /\ Empty(s.redir_begin, s.redir_end)
                  /\ s.o = "SOP_NONE" /\ s.cp = N

\* a lone operator driven to the end: the operator, then the empty statement
C16_Witness ==
    /\ pc = "done"
    /\ N >= 1
    /\ Len(stmts) = 2
    /\ stmts[1].start = 0
    /\ stmts[1].o = "SOP_PIPE"
    /\ stmts[1].cmd_begin = stmts[1].cmd_end
    /\ stmts[2].start = N
    /\ stmts[2].o = "SOP_NONE"

\* C14: a cursor-only call made while the cursor is still NULL ends in a
\* misuse outcome of its own and reads nothing through the cursor.
C14_MisuseReported ==
    \A i \in Calls :
        stmts[i].start = NULL =>
            /\ pc = "misuse"
            /\ NULL \notin stmts[i].rd

\* the do/while loop over one buffer, driven alone: what each call returns
RECURSIVE Alone(_, _, _, _)
Alone(b, in, ctx, fuel) ==
    LET s == shell_command_param_split(b, in, ctx)
    IN  IF s.o = "SOP_NONE" \/ fuel = 0
        THEN <<s>>
        ELSE <<s>> \o Alone(b, NULL, s.cp, fuel - 1)

\* C13: with the calls of two chains interleaved in any order, each chain
\* has at every moment returned a prefix of the statements, operators and
\* cursors it returns when driven alone, and ends exactly when it has
\* returned all of them.
C13_ChainsIndependent ==
    \A k \in DOMAIN chain :
        LET c == chain[k]
            a == Alone(c.buf, 0, NULL, Len(c.buf) + 1)
            n == Len(c.stmts)
        IN  /\ n <= Len(a)
            /\ c.stmts = SubSeq(a, 1, n)
            /\ (c.pc = "done") = (n = Len(a))
            /\ n > 0 => c.context = a[n].cp /\ c.o = a[n].o

\* both chains have several statements, and the second chain made a call
\* between two calls of the first
C13_Witness ==
    /\ chain # Off
    /\ Len(chain[1].stmts) >= 2 /\ chain[1].pc = "call"
    /\ Len(chain[2].stmts) >= 1 /\ chain[2].pc = "call"
    /\ chain[1].buf # chain[2].buf

Ceil3(n) == (n + 2) \div 3

IsParen(c) == c \in {LP, RP}

\* the characters of x at the positions in keep, in order
RECURSIVE Pick(_, _, _)
Pick(x, keep, k) ==
    IF k > Len(x) THEN <<>>
    ELSE (IF k \in keep THEN <<x[k]>> ELSE <<>>) \o Pick(x, keep, k + 1)

\* nesting depth after each prefix, or -1 once a `)` closes nothing
RECURSIVE Depth(_, _)
Depth(x, k) ==
    IF k = 0 THEN 0
    ELSE LET before == Depth(x, k - 1)
         IN  IF before < 0 THEN -1
             ELSE IF x[k] = LP THEN before + 1
             ELSE IF x[k] = RP THEN before - 1
             ELSE before

Balanced(x) == Depth(x, Len(x)) = 0

\* the ways to keep every character that is not a parenthesis
Keeps(x) ==
    {keep \in SUBSET (1 .. Len(x)) :
        \A k \in 1 .. Len(x) : ~IsParen(x[k]) => k \in keep}

\* C18: the string returned is the input with some parentheses removed, every
\* other character kept in order; it is balanced; and no balanced string
\* obtained from the input by removing parentheses only is longer.
C18_MinRemoveValid ==
    (parenth # Off /\ parenth.pc = "done") =>
        LET x == Str(parenth.input)
            y == Str(parenth.result)
        IN  /\ \E keep \in Keeps(x) : y = Pick(x, keep, 1)
            /\ Balanced(y)
            /\ \A keep \in Keeps(x) :
                  Balanced(Pick(x, keep, 1)) => Cardinality(keep) <= Len(y)

\* an input with an unmatched `(`, a nested pair and an unmatched `)`
C18_Witness ==
    /\ parenth # Off
    /\ parenth.pc = "done"
    /\ Str(parenth.input) = <<RP, LP, LP, RP, LP>>
    /\ Str(parenth.result) = <<LP, RP>>

\* the components of a path: the pieces between its slashes, from offset k
RECURSIVE Components(_, _, _)
Components(x, k, cur) ==
    IF k > Len(x) THEN <<cur>>
    ELSE IF x[k] = SLASH THEN <<cur>> \o Components(x, k + 1, <<>>)
    ELSE Components(x, k + 1, Append(cur, x[k]))

\* the components kept, in order, after the first k of cs
RECURSIVE Kept(_, _, _)
Kept(cs, k, stack) ==
    IF k > Len(cs) THEN stack
    ELSE IF cs[k] = <<>> \/ cs[k] = <<DOT>> THEN Kept(cs, k + 1, stack)
    ELSE IF cs[k] = <<DOT, DOT>>
    THEN Kept(cs, k + 1, IF stack = <<>> THEN stack
                         ELSE SubSeq(stack, 1, Len(stack) - 1))
    ELSE Kept(cs, k + 1, Append(stack, cs[k]))

RECURSIVE JoinPath(_, _)
JoinPath(stack, k) ==
    IF k > Len(stack) THEN <<>>
    ELSE <<SLASH>> \o stack[k] \o JoinPath(stack, k + 1)

Canonical(x) ==
    LET stack == Kept(Components(x, 2, <<>>), 1, <<>>)
    IN  IF stack = <<>> THEN <<SLASH>> ELSE JoinPath(stack, 1)

\* C19: for a string that begins with `/` the call returns the array, which
\* then holds the canonical path of the input (empty and `.` components
\* dropped, `..` removing the nearest kept component or nothing at the root,
\* every other component kept, one `/` before each, `/` alone when none is
\* kept) and is not longer than the input; for any other string it returns
\* NULL and the array is unchanged.
C19_PathCanonical ==
    (path # Off /\ path.pc = "done") =>
        LET x == Str(path.input)
        IN  IF x # <<>> /\ x[1] = SLASH
            THEN /\ path.result.ret = 0
                 /\ Str(path.result.mem) = Canonical(x)
                 /\ Len(Str(path.result.mem)) <= Len(x)
            ELSE /\ path.result.ret = NULL
                 /\ path.result.mem = path.input

\* `/a/../a`: a `..` that removes a component, then a component kept
C19_Witness ==
    /\ path # Off
    /\ path.pc = "done"
    /\ Str(path.input) = <<SLASH, 97, SLASH, DOT, DOT, SLASH, 97>>
    /\ path.result.ret = 0
    /\ Str(path.result.mem) = <<SLASH, 97>>

\* the parser after all of src from offset k, with room for every byte
RECURSIVE Feed(_, _, _)
Feed(parser, src, k) ==
    IF k > Len(src) THEN c_unescape_finalize(parser)
    ELSE Feed(c_unescape_process_one(parser, src[k]), src, k + 1)

\* the output of c_unescape on src when nothing limits it
Unbounded(src) == Feed(c_unescape_init(0, 2 * Len(src) + 1), src, 1).dest

Min(a, b) == IF a < b THEN a ELSE b

\* C20: at every step the bytes written fit in dest, and together with the
\* room left make up dest_len; when the call returns it has written exactly
\* min(required, dest_len) bytes, they are the first bytes of the output that
\* an unlimited buffer receives, and *dest_len_required is the length of
\* that output, whatever dest_len was.
C20_DestSafe ==
    unescape # Off =>
        LET p == unescape.parser
            full == Unbounded(unescape.src)
        IN  /\ Len(p.dest) <= unescape.dest_len
            /\ Len(p.dest) + p.dest_len = unescape.dest_len
            /\ Len(p.dest) = Min(p.required, unescape.dest_len)
            /\ unescape.pc = "done" =>
                  /\ unescape.dest_len_required = Len(full)
                  /\ Len(p.dest) = Min(Len(full), unescape.dest_len)
                  /\ p.dest = SubSeq(full, 1, Len(p.dest))

\* a call that needed more room than it had and wrote part of the output
C20_Witness ==
    /\ unescape # Off
    /\ unescape.pc = "done"
    /\ unescape.dest_len > 0
    /\ unescape.dest_len_required > unescape.dest_len
    /\ Len(unescape.parser.dest) = unescape.dest_len
    /\ \E k \in 1 .. Len(unescape.src) : unescape.src[k] = C_ESCAPE_CHAR

\* a word starts at offset p
WordAt(b, p) == Byte(b, p) # NUL /\ ~IsSeper(Byte(b, p))

\* C21: when the byte after a non-empty command token is a tab and a word
\* follows the blank run, the parameter phase is entered as for a space:
\* params begins at that word and is not empty; and a tab after a parameter
\* word is interior to params, so params never ends at a tab that another
\* word follows.
C21_TabIsBlank ==
    \A i \in Calls :
        LET s == stmts[i]
        IN  /\ (/\ s.cmd_end > s.cmd_begin
                /\ Byte(buf, s.cmd_end) = TAB
                /\ WordAt(buf, EAT_BLANK(buf, s.cmd_end))) =>
                  /\ s.params_begin = EAT_BLANK(buf, s.cmd_end)
                  /\ s.params_end > s.params_begin
            /\ (s.params_end # NULL /\ Byte(buf, s.params_end) = TAB) =>
                  IsSeper(Byte(buf, EAT_BLANK(buf, s.params_end))) \/
                  Byte(buf, EAT_BLANK(buf, s.params_end)) = NUL

DQsIn(b, p, q) == Cardinality({k \in p .. q - 1 : Byte(b, k) = DQ})

\* the quote at x opens inside token t of a call and nothing closes it
OpensUnclosed(b, t, x) ==
    /\ t[1] <= x /\ x < t[2]
    /\ Byte(b, x) = DQ
    /\ DQsIn(b, t[1], x) % 2 = 0
    /\ DQsIn(b, x + 1, Len(b)) = 0

\* C22: when a double quote opens inside a token a call scans and the buffer
\* holds no later double quote, that token runs to the end of input, the call
\* returns SOP_NONE with the cursor at Len(buf) and ends the loop, it reads
\* nothing after the terminator, and it recognises no redirection or control
\* operator after the quote.
C22_UnterminatedQuote ==
    \A i \in Calls :
        LET s == stmts[i]
        IN  \A t \in s.toks :
                \A x \in t[1] .. t[2] - 1 :
                    OpensUnclosed(buf, t, x) =>
                        /\ t[2] = N
                        /\ s.o = "SOP_NONE"
                        /\ s.cp = N
                        /\ s.op_at = N
                        /\ s.rd \subseteq 0 .. N
                        /\ s.sop_redir # "SOP_REDIR_NONE" => s.redir_after <= x
                        /\ i = Len(stmts) /\ pc = "done"

\* a call met an unclosed quote with an operator character and a blank
\* somewhere after it
C22_Witness ==
    /\ pc = "done"
    /\ stmts # <<>>
    /\ LET s == stmts[Len(stmts)]
       IN  \E t \in s.toks :
               \E x \in t[1] .. t[2] - 1 :
                   /\ OpensUnclosed(buf, t, x)
                   /\ \E y \in x + 1 .. N - 1 :
                         Byte(buf, y) \in {SEMI, AMP, PIPE, GT, LT}
                   /\ s.cp = N

\* C23 as stated: the command range a call returns is empty only if every
\* byte from the pointer the call started from to the end of the buffer is a
\* blank.
C23_CommandEmptyOnlyIfBlank ==
    \A i \in Calls :
        LET s == stmts[i]
        IN  s.cmd_begin = s.cmd_end =>
                \A x \in s.start .. N - 1 : IsBlank(Byte(buf, x))

\* C23 amended: the command range begins at the first non-blank byte after
\* the starting pointer; it is empty exactly when that byte is the
\* terminator or one of `<`, `>`, `&`, `|`, `;`, and otherwise it is the
\* token that starts there.
C23_CommandEmptyIffNoWord ==
    \A i \in Calls :
        LET s == stmts[i]
            f == EAT_BLANK(buf, s.start)
        IN  /\ s.cmd_begin = f
            /\ (s.cmd_begin = s.cmd_end) = ~WordAt(buf, f)
            /\ WordAt(buf, f) =>
                  /\ s.cmd_end = GET_SEPER(buf, f)
                  /\ s.cmd_end > f

\* a call that started on an operator character, and one that started on
\* blanks followed by a word
C23_Witness ==
    /\ Len(stmts) >= 2
    /\ \E i \in Calls :
          /\ stmts[i].cmd_begin = stmts[i].cmd_end
          /\ Byte(buf, stmts[i].cmd_begin) \in {AMP, PIPE, SEMI, LT, GT}
    /\ \E i \in Calls :
          /\ stmts[i].cmd_begin > stmts[i].start
          /\ stmts[i].cmd_end > stmts[i].cmd_begin

\* where a token that starts at p ends: the first offset at or after p that
\* is the end of input, or a blank or operator character with an even number
\* of double quotes between p and it
TokenEnd(b, p) ==
    CHOOSE q \in p .. Len(b) :
        /\ q = Len(b) \/ (IsSeper(Byte(b, q)) /\ DQsIn(b, p, q) % 2 = 0)
        /\ \A h \in p .. q - 1 :
              ~(IsSeper(Byte(b, h)) /\ DQsIn(b, p, h) % 2 = 0)

\* C24: when the kind reported is not SOP_REDIR_NONE and the operator is not
\* at the end of input, the target begins at the first non-blank byte after
\* the operator and ends where one token that starts there ends (the first
\* unquoted blank or operator character, or the end of input); when the kind
\* is SOP_REDIR_NONE the target range is empty.
C24_TargetOneToken ==
    \A i \in Calls :
        LET s == stmts[i]
        IN  IF s.sop_redir # "SOP_REDIR_NONE"
            THEN Byte(buf, s.redir_after) # NUL =>
                    /\ s.redir_begin = EAT_BLANK(buf, s.redir_after)
                    /\ s.redir_end = TokenEnd(buf, s.redir_begin)
            ELSE s.redir_begin = s.redir_end

\* ` > z z ; `: the target is the first word, the second is not part of it
C24_Witness ==
    /\ stmts # <<>>
    /\ LET s == stmts[1]
       IN  /\ s.sop_redir = "SOP_REDIR_OUT"
           /\ s.redir_begin > s.redir_after
           /\ s.redir_end > s.redir_begin
           /\ Byte(buf, s.redir_end) = SP
           /\ WordAt(buf, s.redir_end + 1)

\* the eight outputs of a call: three ranges, kind, operator, new cursor
Out(s) ==
    <<s.cmd_begin, s.cmd_end, s.params_begin, s.params_end, s.sop_redir,
      s.redir_begin, s.redir_end, s.o, s.cp>>

\* C25: what a call returned is what a cursor-only call from the same
\* starting pointer on the same buffer returns, whatever the caller's
\* variables held before; after a call the caller's variables hold the
\* outputs of that call and nothing of an earlier one: a call that met no
\* redirection operator reports SOP_REDIR_NONE and a NULL target, a call that
\* met no blank after its command reports NULL params.
C25_NoStaleOutputs ==
    /\ \A i \in Calls :
          LET s == stmts[i]
          IN  /\ Out(s) = Out(shell_command_param_split(buf, NULL, s.start))
              /\ Byte(buf, s.redir_at) \notin {GT, LT} =>
                    /\ s.sop_redir = "SOP_REDIR_NONE"
                    /\ s.redir_begin = NULL /\ s.redir_end = NULL
              /\ Byte(buf, s.cmd_end) # SP =>
                    s.params_begin = NULL /\ s.params_end = NULL
    /\ stmts # <<>> =>
          <<cmdb, cmde, paramsb, paramse, r, redir_begin, redir_end, o,
            context>> = Out(stmts[Len(stmts)])

\* a statement with params and a redirection target, then one with neither,
\* as after `echo >> /dev/null && cat foo`
C25_Witness ==
    /\ Len(stmts) >= 2
    /\ \E i \in 2 .. Len(stmts) :
          /\ stmts[i - 1].sop_redir # "SOP_REDIR_NONE"
          /\ stmts[i - 1].redir_end > stmts[i - 1].redir_begin
          /\ stmts[i].cmd_end > stmts[i].cmd_begin
          /\ stmts[i].sop_redir = "SOP_REDIR_NONE"
          /\ stmts[i].redir_begin = NULL
          /\ i = Len(stmts) /\ r = "SOP_REDIR_NONE" /\ redir_begin = NULL

\* the buffer that begins at offset c of b
Suffix(b, c) == SubSeq(b, c + 1, Len(b))

\* an offset into the suffix, as an offset into the buffer
Shift(p, c) == IF p = NULL THEN NULL ELSE p + c

ShiftOut(t, c) ==
    <<Shift(t.cmd_begin, c), Shift(t.cmd_end, c),
      Shift(t.params_begin, c), Shift(t.params_end, c), t.sop_redir,
      Shift(t.redir_begin, c), Shift(t.redir_end, c), t.o, Shift(t.cp, c)>>

\* C26: a call that starts at offset c returns the kind, the operator, and
\* the ranges and cursor, as offsets, that a first call on the suffix of the
\* buffer from c returns with c added to every offset; and it reads no byte
\* before c.
C26_ResumeIsRestart ==
    \A i \in Calls :
        LET s == stmts[i]
            c == s.start
        IN  /\ Out(s) = ShiftOut(shell_command_param_split(Suffix(buf, c), 0, NULL), c)
            /\ \A x \in s.rd : x >= c

\* a cursor-only call from inside the buffer, with a quote before the cursor
\* and something to return after it
C26_Witness ==
    /\ stmts # <<>>
    /\ LET s == stmts[Len(stmts)]
       IN  /\ s.start > 0
           /\ \E x \in 0 .. s.start - 1 : Byte(buf, x) = DQ
           /\ s.cmd_end > s.cmd_begin
           /\ s.cmd_begin > s.start

OctalDigits == 48 .. 55

\* what the claim says a source made of one escape, and at most one byte or
\* escape after it, unescapes to; <<>> stands for a source it says nothing of
OctalExpected(src) ==
    LET n == Len(src)
        v(k) == src[k] - 48
        oct(k) == k <= n /\ src[k] \in OctalDigits
    IN  IF n < 2 \/ src[1] # C_ESCAPE_CHAR \/ ~oct(2) THEN <<>>
        ELSE IF oct(3) /\ oct(4) /\ n = 4
        THEN <<64 * v(2) + 8 * v(3) + v(4)>>
        ELSE IF n = 2 THEN <<v(2)>>
        ELSE IF oct(3) /\ n = 3 THEN <<8 * v(2) + v(3)>>
        ELSE IF ~oct(3) /\ n = 3 /\ src[3] # C_ESCAPE_CHAR THEN <<v(2), src[3]>>
        ELSE IF ~oct(3) /\ n = 4 /\ src[3] = C_ESCAPE_CHAR /\ src[4] = 110
        THEN <<v(2), 10>>
        ELSE <<>>

\* C27: a backslash and three octal digits a, b, c unescape to the one byte
\* 64a+8b+c, which is at most 255; a backslash and one or two octal digits
\* followed by a byte that is not an octal digit, or by the end of the
\* source, unescape to the value of those digits, and a backslash after them
\* starts a new escape.
C27_OctalValue ==
    (/\ unescape # Off
     /\ unescape.pc = "done"
     /\ unescape.dest_len >= unescape.dest_len_required
     /\ OctalExpected(unescape.src) # <<>>) =>
        /\ unescape.parser.dest = OctalExpected(unescape.src)
        /\ \A k \in 1 .. Len(unescape.parser.dest) :
              unescape.parser.dest[k] <= 255

\* C28, in its weakest reading: a call of b64_decode with input_length <=
\* strlen(input) is not killed, and either returns ENOMEM having written
\* nothing, or has read in its loop no byte after the terminator of input
\* and has written only output[0 .. output_length-1].
C28_DecodeInBounds ==
    (b64 # Off /\ b64.pc \in {"done", "SIGSEGV"}) =>
        /\ b64.pc = "done"
        /\ \/ b64.dec.rc = "ENOMEM" /\ b64.dec.output = <<>>
           \/ /\ b64.dec.rc = "ENOERR"
              /\ \A x \in DecodeReads(b64.input_length) : x <= strlen(b64.mem)
              /\ Len(b64.dec.output) <= b64.output_length

====
